---- MODULE Spec2Model ----
(***************************************************************************)
(* Release preparation of a devcode project (commands/prepare-release):    *)
(* detectDevcode, the three managed rewrite strategies, the unmanaged      *)
(* occurrence scan and the prepareRelease orchestrator, over a small file  *)
(* tree.                                                                   *)
(*                                                                         *)
(* Text is a sequence of tokens.  "\n" is the line feed, " " a blank; the  *)
(* other tokens stand for literal pieces of text that the code's patterns  *)
(* either match as a whole or not at all:                                  *)
(*   "name:"  the YAML key the config rewriter looks for                   *)
(*   "CO"     uses: actions/checkout@v6                                    *)
(*   "TODO"   # TODO: After replace-devcode                                *)
(*   "TAIL"   , add token: ${{ secrets.PAT_FOR_TAGPR }}                    *)
(*   "GT"     GITHUB_TOKEN: ${{ secrets.GITHUB_TOKEN }}                    *)
(*   "SG"     token: ${{ secrets.GITHUB_TOKEN }}  (another reference)      *)
(*   "PT"     GITHUB_TOKEN: ${{ secrets.PAT_FOR_TAGPR }}                   *)
(*   "with:"  with:                                                        *)
(*   "TK"     token: ${{ secrets.PAT_FOR_TAGPR }}                          *)
(*   "$&"     the two characters $& (a replacement pattern of replace())   *)
(*   "d" "e" "p" "x"  ordinary characters                                  *)
(***************************************************************************)
EXTENDS Integers, Sequences, FiniteSets, TLC

VARIABLES
  fs,           \* the file tree: path -> node
  fs0,          \* the file tree before the run (history)
  publishName,  \* options.publishName
  pc,           \* position of the run
  op,           \* the operation that ran ("prepareRelease" or one function)
  detected,     \* result of detectDevcode: [err, value]
  idx,          \* index of the next managed location to process
  outcomes,     \* per location: [file, err], in processing order
  scanArg,      \* the identifier handed to findUnmanagedOccurrences
  occurrences,  \* the reported occurrences
  exitCode,     \* process exit code set by the CLI action (-1: not exited)
  thrown,       \* the error prepareRelease rejected with ("none": none)
  phases,       \* the positions the run has entered, in order (history)
  fs1,          \* the file tree after a strategy's first application (history)
  stderr,       \* the lines written with console.error
  walked,       \* the result of findFilesRecursive called on its own
  excluded      \* the exclusion list given to findFilesRecursive

vars == <<fs, fs0, publishName, pc, op, detected, idx, outcomes, scanArg,
          occurrences, exitCode, thrown, phases, fs1, stderr, walked,
          excluded>>

(***************************************************************************)
(* Strings                                                                 *)
(***************************************************************************)
NL == "\n"
SP == " "

IsWhite(t) == t = SP \/ t = NL

\* s.startsWith(pat) at position i (1-based)
MatchesAt(s, pat, i) ==
  /\ i + Len(pat) - 1 <= Len(s)
  /\ \A k \in 1..Len(pat) : s[i + k - 1] = pat[k]

\* s.indexOf(pat) + 1; 0 when pat does not occur
IndexOf(s, pat) ==
  LET hits == {i \in 1..(Len(s) + 1) : MatchesAt(s, pat, i)}
  IN IF hits = {} THEN 0 ELSE CHOOSE i \in hits : \A j \in hits : i <= j

Includes(s, pat) == IndexOf(s, pat) # 0

StartsWith(s, pat) == MatchesAt(s, pat, 1)

RECURSIVE TrimStart(_)
TrimStart(s) ==
  IF s # <<>> /\ IsWhite(Head(s)) THEN TrimStart(Tail(s)) ELSE s

RECURSIVE TrimEnd(_)
TrimEnd(s) ==
  IF s # <<>> /\ IsWhite(s[Len(s)]) THEN TrimEnd(SubSeq(s, 1, Len(s) - 1)) ELSE s

Trim(s) == TrimEnd(TrimStart(s))

\* content.split('\n')
RECURSIVE SplitLines(_)
SplitLines(s) ==
  LET i == IndexOf(s, <<NL>>)
  IN IF i = 0 THEN <<s>>
     ELSE <<SubSeq(s, 1, i - 1)>> \o SplitLines(SubSeq(s, i + 1, Len(s)))

\* lines.join('\n')
RECURSIVE JoinLines(_)
JoinLines(lines) ==
  IF lines = <<>> THEN <<>>
  ELSE IF Len(lines) = 1 THEN lines[1]
  ELSE lines[1] \o <<NL>> \o JoinLines(Tail(lines))

\* The replacement text of String.prototype.replace: $& stands for the match
RECURSIVE ExpandReplacement(_, _)
ExpandReplacement(repl, matched) ==
  IF repl = <<>> THEN <<>>
  ELSE (IF Head(repl) = "$&" THEN matched ELSE <<Head(repl)>>)
       \o ExpandReplacement(Tail(repl), matched)

\* A mutant of StringReplace: every occurrence is replaced (replaceAll)
RECURSIVE StringReplaceAll(_, _, _)
StringReplaceAll(s, pat, repl) ==
  LET i == IndexOf(s, pat)
  IN IF i = 0 \/ pat = <<>> THEN s
     ELSE SubSeq(s, 1, i - 1) \o ExpandReplacement(repl, pat)
          \o StringReplaceAll(SubSeq(s, i + Len(pat), Len(s)), pat, repl)

\* s.replace(pat, repl) with a string pattern: the first occurrence only
StringReplace(s, pat, repl) ==
  LET i == IndexOf(s, pat)
  IN IF i = 0 THEN s
     ELSE SubSeq(s, 1, i - 1) \o ExpandReplacement(repl, pat)
          \o SubSeq(s, i + Len(pat), Len(s))

(***************************************************************************)
(* JSON values and the manifest file                                       *)
(***************************************************************************)
\* A JSON value: its type and its text
JBool(b) == [t |-> "bool", s |-> IF b THEN <<"true">> ELSE <<"false">>]
JStr(s) == [t |-> "str", s |-> s]
JNum(n) == [t |-> "num", s |-> <<n>>]
JNull == [t |-> "null", s |-> <<>>]
Undefined == [t |-> "undefined", s |-> <<>>]

\* JavaScript's ToBoolean
Truthy(v) ==
  \/ v.t = "bool" /\ v.s = <<"true">>
  \/ v.t = "num" /\ v.s # <<"0">>
  \/ v.t = "str" /\ v.s # <<>>

\* JavaScript's ToString, as includes() and replace() apply it to a pattern
ToStr(v) ==
  IF v.t = "null" THEN <<"null">>
  ELSE IF v.t = "undefined" THEN <<"undefined">>
  ELSE v.s

\* The text of a manifest file: garbage, or a JSON document in some layout
\* (top: "object" with its entries in order, or "null")
Manifest(fmt, entries) == [fmt |-> fmt, top |-> "object", entries |-> entries]
GarbageText == [fmt |-> "garbage", top |-> "none", entries |-> <<>>]
NullText == [fmt |-> "compact", top |-> "null", entries |-> <<>>]
NoText == [fmt |-> "none", top |-> "none", entries |-> <<>>]

HasKey(entries, k) == \E i \in 1..Len(entries) : entries[i].k = k

\* pkg[k]
Get(entries, k) ==
  IF HasKey(entries, k)
  THEN entries[CHOOSE i \in 1..Len(entries) : entries[i].k = k].v
  ELSE Undefined

\* pkg[k] = v: an existing key keeps its place, a new key goes last
SetKey(entries, k, v) ==
  IF HasKey(entries, k)
  THEN [i \in 1..Len(entries) |->
          IF entries[i].k = k THEN [k |-> k, v |-> v] ELSE entries[i]]
  ELSE Append(entries, [k |-> k, v |-> v])

\* delete pkg[k]
RECURSIVE DeleteKey(_, _)
DeleteKey(entries, k) ==
  IF entries = <<>> THEN <<>>
  ELSE IF Head(entries).k = k THEN DeleteKey(Tail(entries), k)
  ELSE <<Head(entries)>> \o DeleteKey(Tail(entries), k)

\* JSON.parse(content): [err, top, entries]
JsonParse(text) ==
  IF text.fmt \in {"garbage", "none"}
  THEN [err |-> "SyntaxError", top |-> "none", entries |-> <<>>]
  ELSE [err |-> "none", top |-> text.top, entries |-> text.entries]

\* `${JSON.stringify(pkg, null, 2)}\n`
JsonStringifyPretty(top, entries) ==
  [fmt |-> "pretty", top |-> top, entries |-> entries]

(***************************************************************************)
(* The file tree                                                           *)
(***************************************************************************)
P_pkg == <<"package.json">>
P_github == <<".github">>
P_codeqlDir == <<".github", "codeql">>
P_codeql == <<".github", "codeql", "codeql-config.yml">>
P_workflows == <<".github", "workflows">>
P_tagpr == <<".github", "workflows", "tagpr.yml">>
P_src == <<"src">>
P_index == <<"src", "index.ts">>
P_srcPkg == <<"src", "package.json">>
P_srcDist == <<"src", "dist">>
P_srcDistOut == <<"src", "dist", "out.js">>
P_nm == <<"node_modules">>
P_nmDep == <<"node_modules", "dep.js">>
P_dist == <<"dist">>
P_distOut == <<"dist", "out.js">>

\* The paths of the model's trees, in the order readdir lists them
PathOrder ==
  << P_github, P_codeqlDir, P_codeql, P_workflows, P_tagpr,
     P_dist, P_distOut, P_nm, P_nmDep, P_pkg,
     P_src, P_srcDist, P_srcDistOut, P_index, P_srcPkg >>

Paths == {PathOrder[i] : i \in 1..Len(PathOrder)}

NoNode == [kind |-> "none", readable |-> TRUE, writable |-> TRUE, content |-> <<>>]
DirNode(r) == [kind |-> "dir", readable |-> r, writable |-> TRUE, content |-> <<>>]
FileNode(r, w, c) == [kind |-> "file", readable |-> r, writable |-> w, content |-> c]

ProperAncestors(p) == {SubSeq(p, 1, k) : k \in 1..(Len(p) - 1)}

\* fs.readFile(path, 'utf-8'): [err, content]
ReadFile(f, p) ==
  IF \E a \in ProperAncestors(p) : f[a].kind = "file"
    THEN [err |-> "ENOTDIR", content |-> <<>>]
  ELSE IF f[p].kind = "none" \/ \E a \in ProperAncestors(p) : f[a].kind = "none"
    THEN [err |-> "ENOENT", content |-> <<>>]
  ELSE IF f[p].kind = "dir" THEN [err |-> "EISDIR", content |-> <<>>]
  ELSE IF ~f[p].readable THEN [err |-> "EACCES", content |-> <<>>]
  ELSE [err |-> "none", content |-> f[p].content]

\* fs.writeFile(path, content, 'utf-8'): [err, fs]
WriteFile(f, p, c) ==
  IF \E a \in ProperAncestors(p) : f[a].kind = "file"
    THEN [err |-> "ENOTDIR", fs |-> f]
  ELSE IF \E a \in ProperAncestors(p) : f[a].kind = "none"
    THEN [err |-> "ENOENT", fs |-> f]
  ELSE IF f[p].kind = "dir" THEN [err |-> "EISDIR", fs |-> f]
  ELSE IF f[p].kind = "file" /\ ~f[p].writable THEN [err |-> "EACCES", fs |-> f]
  ELSE IF f[p].kind = "file"
    THEN [err |-> "none", fs |-> [f EXCEPT ![p].content = c]]
  ELSE [err |-> "none", fs |-> [f EXCEPT ![p] = FileNode(TRUE, TRUE, c)]]

(***************************************************************************)
(* detectDevcode                                                           *)
(***************************************************************************)
ErrNotFound == "package.json not found"
ErrNotDevcode == "not a devcode project"

\* The devcode test of detectDevcode: !pkg.private is false
IsDevcode(entries) == Truthy(Get(entries, "private"))

\* A mutant of DetectedName: the name is looked up under another key
DetectedNameWrongKey(entries) == Get(entries, "version")

\* return pkg.name
DetectedName(entries) == Get(entries, "name")

\* A mutant of detectDevcode: ENOENT is reported like any other read error
detectDevcodeNoEnoent(f) ==
  LET r == ReadFile(f, P_pkg)
      pkg == JsonParse(r.content)
  IN IF r.err # "none" THEN [err |-> r.err, value |-> Undefined]
     ELSE IF pkg.err # "none" THEN [err |-> pkg.err, value |-> Undefined]
     ELSE IF pkg.top = "null" THEN [err |-> "TypeError", value |-> Undefined]
     ELSE IF ~IsDevcode(pkg.entries) THEN [err |-> ErrNotDevcode, value |-> Undefined]
     ELSE [err |-> "none", value |-> DetectedName(pkg.entries)]

\* detectDevcode(targetDir): [err, value]; err "none" when it returns
detectDevcode(f) ==
  LET r == ReadFile(f, P_pkg)
      pkg == JsonParse(r.content)
  IN IF r.err = "ENOENT" THEN [err |-> ErrNotFound, value |-> Undefined]
     ELSE IF r.err # "none" THEN [err |-> r.err, value |-> Undefined]
     ELSE IF pkg.err # "none" THEN [err |-> pkg.err, value |-> Undefined]
     ELSE IF pkg.top = "null" THEN [err |-> "TypeError", value |-> Undefined]
     ELSE IF ~IsDevcode(pkg.entries) THEN [err |-> ErrNotDevcode, value |-> Undefined]
     ELSE [err |-> "none", value |-> DetectedName(pkg.entries)]

(***************************************************************************)
(* The managed rewrite strategies: each returns [err, fs]                  *)
(***************************************************************************)
\* A mutant of RewriteManifest: private is set to false, not deleted
RewriteManifestKeepPrivate(entries, name) ==
  SetKey(SetKey(entries, "name", JStr(name)), "private", JBool(FALSE))

\* pkg.name = publishName; delete pkg.private
RewriteManifest(entries, name) ==
  DeleteKey(SetKey(entries, "name", JStr(name)), "private")

replaceInPackageJson(f, devcode, name) ==
  LET r == ReadFile(f, P_pkg)
      pkg == JsonParse(r.content)
  IN IF r.err # "none" THEN [err |-> r.err, fs |-> f]
     ELSE IF pkg.err # "none" THEN [err |-> pkg.err, fs |-> f]
     ELSE IF pkg.top = "null" THEN [err |-> "TypeError", fs |-> f]
     ELSE WriteFile(f, P_pkg,
            JsonStringifyPretty(pkg.top, RewriteManifest(pkg.entries, name)))

\* line.trimStart().startsWith('name:')
IsNameLine(line) == StartsWith(TrimStart(line), <<"name:">>)

\* A mutant of RewriteCodeqlLines: every name: line is rewritten (no break)
RewriteCodeqlLinesAll(lines, devcode, name) ==
  [i \in 1..Len(lines) |->
     IF IsNameLine(lines[i]) THEN StringReplace(lines[i], devcode, name)
     ELSE lines[i]]

\* The loop over the lines: the first name: line is rewritten, then break
RewriteCodeqlLines(lines, devcode, name) ==
  LET hits == {i \in 1..Len(lines) : IsNameLine(lines[i])}
      first == IF hits = {} THEN 0
               ELSE CHOOSE i \in hits : \A j \in hits : i <= j
  IN [i \in 1..Len(lines) |->
        IF i = first THEN StringReplace(lines[i], devcode, name) ELSE lines[i]]

\* A mutant of replaceInCodeqlConfig: the ENOENT of the read is rethrown
replaceInCodeqlConfigStrict(f, devcode, name) ==
  LET r == ReadFile(f, P_codeql)
  IN IF r.err # "none" THEN [err |-> r.err, fs |-> f]
     ELSE WriteFile(f, P_codeql,
            JoinLines(RewriteCodeqlLines(SplitLines(r.content), ToStr(devcode), name)))

replaceInCodeqlConfig(f, devcode, name) ==
  LET r == ReadFile(f, P_codeql)
  IN IF r.err = "ENOENT" THEN [err |-> "none", fs |-> f]
     ELSE IF r.err # "none" THEN [err |-> r.err, fs |-> f]
     ELSE WriteFile(f, P_codeql,
            JoinLines(RewriteCodeqlLines(SplitLines(r.content), ToStr(devcode), name)))

(***************************************************************************)
(* replaceInTagprWorkflow: four regular-expression replacements            *)
(***************************************************************************)
\* The end of the longest run of white space that starts at i: the index of
\* the first token at or after i that is not white (Len(s) + 1 if none)
RECURSIVE SkipWhite(_, _)
SkipWhite(s, i) ==
  IF i <= Len(s) /\ IsWhite(s[i]) THEN SkipWhite(s, i + 1) ELSE i

\* The index of the first line feed at or after i (0 if none)
RECURSIVE NextNL(_, _)
NextNL(s, i) ==
  IF i > Len(s) THEN 0 ELSE IF s[i] = NL THEN i ELSE NextNL(s, i + 1)

\* A mutant of ReplaceTokenRefs: the pattern lacks the g flag
RECURSIVE ReplaceTokenRefsFirst(_)
ReplaceTokenRefsFirst(s) ==
  IF s = <<>> THEN <<>>
  ELSE IF Head(s) = "GT" THEN <<"PT">> \o Tail(s)
  ELSE <<Head(s)>> \o ReplaceTokenRefsFirst(Tail(s))

\* /GITHUB_TOKEN: \$\{\{ secrets\.GITHUB_TOKEN \}\}/g -> the PAT reference
ReplaceTokenRefs(s) ==
  [i \in 1..Len(s) |-> IF s[i] = "GT" THEN "PT" ELSE s[i]]

\* A mutant of AddCheckoutTokenFrom: the token line is not indented below
\* the with: line
RECURSIVE AddCheckoutTokenFlat(_, _)
AddCheckoutTokenFlat(s, i) ==
  IF i > Len(s) THEN <<>>
  ELSE
    LET j == SkipWhite(s, i + 2)
        hit == /\ s[i] = "CO"
               /\ i + 1 <= Len(s) /\ s[i + 1] = NL
               /\ j + 1 <= Len(s) /\ s[j] = "TODO" /\ s[j + 1] = "TAIL"
        ws == SubSeq(s, i + 2, j - 1)
    IN IF hit
       THEN <<"CO", NL>> \o ws \o <<"with:", NL>> \o ws \o <<"TK">>
            \o AddCheckoutTokenFlat(s, j + 2)
       ELSE <<s[i]>> \o AddCheckoutTokenFlat(s, i + 1)

\* /(uses: actions\/checkout@v\d+)\n(\s*)# TODO: ..., add token: ...\}\}/g
\*   -> '$1\n$2with:\n$2  token: ${{ secrets.PAT_FOR_TAGPR }}'
RECURSIVE AddCheckoutTokenFrom(_, _)
AddCheckoutTokenFrom(s, i) ==
  IF i > Len(s) THEN <<>>
  ELSE
    LET j == SkipWhite(s, i + 2)
        hit == /\ s[i] = "CO"
               /\ i + 1 <= Len(s) /\ s[i + 1] = NL
               /\ j + 1 <= Len(s) /\ s[j] = "TODO" /\ s[j + 1] = "TAIL"
        ws == SubSeq(s, i + 2, j - 1)
    IN IF hit
       THEN <<"CO", NL>> \o ws \o <<"with:", NL>> \o ws \o <<SP, SP, "TK">>
            \o AddCheckoutTokenFrom(s, j + 2)
       ELSE <<s[i]>> \o AddCheckoutTokenFrom(s, i + 1)

AddCheckoutToken(s) == AddCheckoutTokenFrom(s, 1)

\* /\s*# TODO: After replace-devcode.*\n/g -> '\n'
RECURSIVE RemoveTodoCommentsFrom(_, _)
RemoveTodoCommentsFrom(s, i) ==
  IF i > Len(s) THEN <<>>
  ELSE
    LET j == SkipWhite(s, i)
        k == IF j <= Len(s) /\ s[j] = "TODO" THEN NextNL(s, j + 1) ELSE 0
    IN IF k # 0
       THEN <<NL>> \o RemoveTodoCommentsFrom(s, k + 1)
       ELSE <<s[i]>> \o RemoveTodoCommentsFrom(s, i + 1)

RemoveTodoComments(s) == RemoveTodoCommentsFrom(s, 1)

\* The end of the run of line feeds that starts at i
RECURSIVE SkipNL(_, _)
SkipNL(s, i) ==
  IF i <= Len(s) /\ s[i] = NL THEN SkipNL(s, i + 1) ELSE i

\* /\n{3,}/g -> '\n\n'
RECURSIVE CollapseBlankLinesFrom(_, _)
CollapseBlankLinesFrom(s, i) ==
  IF i > Len(s) THEN <<>>
  ELSE
    LET j == SkipNL(s, i)
    IN IF j - i >= 3
       THEN <<NL, NL>> \o CollapseBlankLinesFrom(s, j)
       ELSE <<s[i]>> \o CollapseBlankLinesFrom(s, i + 1)

CollapseBlankLines(s) == CollapseBlankLinesFrom(s, 1)

\* A mutant of RewriteWorkflow: the line feeds are collapsed before the
\* remaining comments are removed
RewriteWorkflowCollapseFirst(s) ==
  RemoveTodoComments(CollapseBlankLines(AddCheckoutToken(ReplaceTokenRefs(s))))

\* The four replacements in the order the code applies them
RewriteWorkflow(s) ==
  CollapseBlankLines(RemoveTodoComments(AddCheckoutToken(ReplaceTokenRefs(s))))

replaceInTagprWorkflow(f, devcode, name) ==
  LET r == ReadFile(f, P_tagpr)
  IN IF r.err = "ENOENT" THEN [err |-> "none", fs |-> f]
     ELSE IF r.err # "none" THEN [err |-> r.err, fs |-> f]
     ELSE WriteFile(f, P_tagpr, RewriteWorkflow(r.content))

(***************************************************************************)
(* MANAGED_LOCATIONS                                                       *)
(***************************************************************************)
MANAGED_LOCATIONS == <<P_pkg, P_codeql, P_tagpr>>

\* location.replace(targetDir, devcode, publishName) of the i-th location
LocationReplace(i, f, devcode, name) ==
  IF i = 1 THEN replaceInPackageJson(f, devcode, name)
  ELSE IF i = 2 THEN replaceInCodeqlConfig(f, devcode, name)
  ELSE replaceInTagprWorkflow(f, devcode, name)

(***************************************************************************)
(* findFilesRecursive and findUnmanagedOccurrences                         *)
(***************************************************************************)
EXCLUDE_DIRS == {"node_modules", ".git", "dist", "bun.lockb"}

BaseName(p) == p[Len(p)]

\* The entries readdir(dir) lists, in its order; dir = <<>> is the root
Entries(f, dir) ==
  SelectSeq(PathOrder,
            LAMBDA p : /\ Len(p) = Len(dir) + 1
                       /\ SubSeq(p, 1, Len(dir)) = dir
                       /\ f[p].kind # "none")

\* readdir(dir) throws: the directory is missing or cannot be read
ReaddirFails(f, dir) ==
  dir # <<>> /\ (f[dir].kind # "dir" \/ ~f[dir].readable)

RECURSIVE findFilesRecursive(_, _, _)
RECURSIVE WalkEntries(_, _, _)

\* A mutant of WalkEntries: the exclusion list is applied to the entries of
\* the root only
RECURSIVE WalkEntriesTopOnly(_, _, _)
WalkEntriesTopOnly(f, entries, excludeDirs) ==
  IF entries = <<>> THEN <<>>
  ELSE
    LET entry == Head(entries)
        here == IF f[entry].kind = "dir"
                THEN IF Len(entry) > 1 \/ BaseName(entry) \notin excludeDirs
                     THEN findFilesRecursive(f, entry, excludeDirs)
                     ELSE <<>>
                ELSE IF f[entry].kind = "file" THEN <<entry>>
                ELSE <<>>
    IN here \o WalkEntriesTopOnly(f, Tail(entries), excludeDirs)

\* A mutant of WalkEntries: the exclusion list is applied to every entry,
\* directory or not
RECURSIVE WalkEntriesByName(_, _, _)
WalkEntriesByName(f, entries, excludeDirs) ==
  IF entries = <<>> THEN <<>>
  ELSE
    LET entry == Head(entries)
        here == IF BaseName(entry) \in excludeDirs THEN <<>>
                ELSE IF f[entry].kind = "dir"
                THEN findFilesRecursive(f, entry, excludeDirs)
                ELSE IF f[entry].kind = "file" THEN <<entry>>
                ELSE <<>>
    IN here \o WalkEntriesByName(f, Tail(entries), excludeDirs)

\* The loop over the entries of one directory
WalkEntries(f, entries, excludeDirs) ==
  IF entries = <<>> THEN <<>>
  ELSE
    LET entry == Head(entries)
        here == IF f[entry].kind = "dir"
                THEN IF BaseName(entry) \notin excludeDirs
                     THEN findFilesRecursive(f, entry, excludeDirs)
                     ELSE <<>>
                ELSE IF f[entry].kind = "file" THEN <<entry>>
                ELSE <<>>
    IN here \o WalkEntries(f, Tail(entries), excludeDirs)

findFilesRecursive(f, dir, excludeDirs) ==
  IF ReaddirFails(f, dir) THEN <<>>
  ELSE WalkEntries(f, Entries(f, dir), excludeDirs)

PREVIEW_LEN == 80

\* lines[i].trim().substring(0, 80)
Preview(line) ==
  LET t == Trim(line)
  IN SubSeq(t, 1, IF Len(t) < PREVIEW_LEN THEN Len(t) ELSE PREVIEW_LEN)

\* A mutant of LineOccurrences: each occurrence is put in front of the list
RECURSIVE LineOccurrencesUnshift(_, _, _, _)
LineOccurrencesUnshift(file, lines, i, devcode) ==
  IF i > Len(lines) THEN <<>>
  ELSE LineOccurrencesUnshift(file, lines, i + 1, devcode)
       \o (IF Includes(lines[i], devcode)
           THEN <<[file |-> file, line |-> i, content |-> Preview(lines[i])]>>
           ELSE <<>>)

\* The occurrences of one file's lines, from line i on
RECURSIVE LineOccurrences(_, _, _, _)
LineOccurrences(file, lines, i, devcode) ==
  IF i > Len(lines) THEN <<>>
  ELSE (IF Includes(lines[i], devcode)
        THEN <<[file |-> file, line |-> i, content |-> Preview(lines[i])]>>
        ELSE <<>>)
       \o LineOccurrences(file, lines, i + 1, devcode)

\* A mutant of IsManagedFile: a file is managed by its base name
IsManagedFileByName(p) ==
  \E i \in 1..Len(MANAGED_LOCATIONS) : BaseName(MANAGED_LOCATIONS[i]) = BaseName(p)

\* A mutant of IsManagedFile: only the managed file of the root is known
IsManagedFileRootOnly(p) ==
  \E i \in 1..Len(MANAGED_LOCATIONS) :
    MANAGED_LOCATIONS[i] = p /\ Len(MANAGED_LOCATIONS[i]) = 1

\* managedFiles.has(relativePath)
IsManagedFile(p) ==
  \E i \in 1..Len(MANAGED_LOCATIONS) : MANAGED_LOCATIONS[i] = p

\* The loop of findUnmanagedOccurrences over the files to scan
RECURSIVE ScanFiles(_, _, _)
ScanFiles(f, files, devcode) ==
  IF files = <<>> THEN <<>>
  ELSE
    LET file == Head(files)
        r == ReadFile(f, file)
        here == IF IsManagedFile(file) \/ r.err # "none" THEN <<>>
                ELSE LineOccurrences(file, SplitLines(r.content), 1, devcode)
    IN here \o ScanFiles(f, Tail(files), devcode)

findUnmanagedOccurrences(f, devcode) ==
  ScanFiles(f, findFilesRecursive(f, <<>>, EXCLUDE_DIRS), ToStr(devcode))

(***************************************************************************)
(* The trees a run starts from                                             *)
(***************************************************************************)
De == <<"d", "e">>
Ed == <<"e", "d">>

E(k, v) == [k |-> k, v |-> v]

\* A source file: lines 2 and 4 hold "de", line 4 holds "ed"
SrcText == << "x", NL, SP, "x", "d", "e", SP, NL, NL, "d", "e", "d" >>

\* A config file: a comment with the name, two name: lines
CodeqlText ==
  << "x", "d", "e", NL, "name:", SP, "x", "d", "e", "d", "e", NL, NL,
     SP, "name:", "d", "e" >>

\* The generated workflow: checkout with the sentinel, tagpr with GITHUB_TOKEN
TagprText ==
  << "x", NL, "CO", NL, SP, "TODO", "TAIL", NL, "x", NL, SP, "GT", NL >>

EmptyTree == [p \in Paths |-> IF p = P_pkg THEN [NoNode EXCEPT !.content = NoText]
                              ELSE NoNode]

\* package.json
ManifestNodes ==
  { [NoNode EXCEPT !.content = NoText],
    FileNode(TRUE, TRUE, GarbageText),
    FileNode(TRUE, TRUE, NullText),
    FileNode(FALSE, TRUE, Manifest("compact",
      <<E("name", JStr(De)), E("private", JBool(TRUE))>>)),
    FileNode(TRUE, TRUE, Manifest("compact",
      <<E("name", JStr(De)), E("version", JStr(<<"x">>)), E("private", JBool(TRUE))>>)),
    FileNode(TRUE, FALSE, Manifest("compact",
      <<E("name", JStr(De)), E("version", JStr(<<"x">>)), E("private", JBool(TRUE))>>)),
    FileNode(TRUE, TRUE, Manifest("pretty",
      <<E("private", JBool(TRUE)), E("name", JStr(Ed)), E("description", JStr(Ed))>>)),
    FileNode(TRUE, TRUE, Manifest("compact",
      <<E("name", JStr(De)), E("version", JStr(<<"x">>))>>)),
    FileNode(TRUE, TRUE, Manifest("pretty",
      <<E("name", JStr(De)), E("description", JStr(<<"x", "d", "e">>)),
        E("private", JBool(TRUE))>>)),
    FileNode(TRUE, TRUE, Manifest("pretty",
      <<E("name", JStr(De)), E("private", JBool(FALSE))>>)),
    FileNode(TRUE, TRUE, Manifest("compact",
      <<E("name", JStr(De)), E("private", JStr(<<"x">>))>>)),
    FileNode(TRUE, TRUE, Manifest("compact",
      <<E("name", JStr(Ed)), E("private", JNum("1"))>>)) }

\* .github: absent, a regular file, or the directories with their files
GithubParts ==
  { [p \in {P_github} |-> NoNode],
    [p \in {P_github} |-> FileNode(TRUE, TRUE, <<"x">>)] }
  \cup
  { (P_github :> DirNode(TRUE)) @@ (P_codeqlDir :> DirNode(TRUE))
      @@ (P_workflows :> DirNode(TRUE)) @@ (P_codeql :> c) @@ (P_tagpr :> t) :
    c \in {NoNode, FileNode(TRUE, TRUE, CodeqlText), FileNode(FALSE, TRUE, CodeqlText)},
    t \in {NoNode, FileNode(TRUE, TRUE, TagprText), FileNode(TRUE, FALSE, TagprText)} }

\* src: absent, unreadable, or readable with its files
SrcParts ==
  { [p \in {P_src} |-> NoNode],
    (P_src :> DirNode(FALSE)) @@ (P_index :> FileNode(TRUE, TRUE, SrcText)) }
  \cup
  { (P_src :> DirNode(TRUE)) @@ (P_index :> i) @@ (P_srcPkg :> k)
      @@ (P_srcDist :> DirNode(TRUE)) @@ (P_srcDistOut :> FileNode(TRUE, TRUE, SrcText)) :
    i \in {FileNode(TRUE, TRUE, SrcText), FileNode(FALSE, TRUE, SrcText)},
    k \in {NoNode, FileNode(TRUE, TRUE, SrcText)} }

\* node_modules: absent or a directory with a file
NodeModulesParts ==
  { [p \in {P_nm} |-> NoNode],
    (P_nm :> DirNode(TRUE)) @@ (P_nmDep :> FileNode(TRUE, TRUE, SrcText)) }

\* dist: absent, a regular file, or a directory with a file
DistParts ==
  { [p \in {P_dist} |-> NoNode],
    [p \in {P_dist} |-> FileNode(TRUE, TRUE, SrcText)],
    (P_dist :> DirNode(TRUE)) @@ (P_distOut :> FileNode(TRUE, TRUE, SrcText)) }

Trees ==
  { (P_pkg :> m) @@ g @@ s @@ n @@ d @@ EmptyTree :
    m \in ManifestNodes, g \in GithubParts, s \in SrcParts,
    n \in NodeModulesParts, d \in DistParts }

PublishNames == { <<"p">>, <<"p", "d", "e">> }

(***************************************************************************)
(* prepareRelease, as the CLI action runs it                               *)
(***************************************************************************)
Pending == [err |-> "pending", value |-> Undefined]

Init ==
  /\ fs \in Trees
  /\ fs0 = fs
  /\ publishName \in PublishNames
  /\ pc = "idle"
  /\ op = "prepareRelease"
  /\ detected = Pending
  /\ idx = 1
  /\ outcomes = <<>>
  /\ scanArg = Undefined
  /\ occurrences = <<>>
  /\ exitCode = -1
  /\ thrown = "none"
  /\ phases = <<"idle">>
  /\ fs1 = fs
  /\ stderr = <<>>
  /\ walked = <<>>
  /\ excluded = EXCLUDE_DIRS

\* The action handler calls prepareRelease
Start ==
  /\ pc = "idle"
  /\ pc' = "detecting"
  /\ phases' = Append(phases, pc')
  /\ UNCHANGED <<fs, fs0, publishName, op, detected, idx, outcomes, scanArg,
                 occurrences, exitCode, thrown>>
  /\ UNCHANGED <<fs1, stderr, walked, excluded>>

\* A mutant of AfterDetect: the detector's error is swallowed
AfterDetectSwallow(d) == "rewriting"

\* const devcode = await detectDevcode(targetDir): a throw ends the run
AfterDetect(d) == IF d.err = "none" THEN "rewriting" ELSE "failed"

Detecting ==
  /\ pc = "detecting"
  /\ detected' = detectDevcode(fs)
  /\ pc' = AfterDetect(detected')
  /\ thrown' = IF pc' = "failed" THEN detected'.err ELSE "none"
  /\ phases' = Append(phases, pc')
  /\ UNCHANGED <<fs, fs0, publishName, op, idx, outcomes, scanArg, occurrences,
                 exitCode>>
  /\ UNCHANGED <<fs1, stderr, walked, excluded>>

\* A mutant of AfterLocation: no try/catch around location.replace
AfterLocationThrow(i, err) ==
  IF err # "none" THEN "failed"
  ELSE IF i < Len(MANAGED_LOCATIONS) THEN "rewriting" ELSE "scanning"

\* A mutant of AfterLocation: the loop is left after its first location
AfterLocationBreak(i, err) == "scanning"

\* The for loop over MANAGED_LOCATIONS with its try/catch
AfterLocation(i, err) ==
  IF i < Len(MANAGED_LOCATIONS) THEN "rewriting" ELSE "scanning"

Rewriting ==
  /\ pc = "rewriting"
  /\ LET r == LocationReplace(idx, fs, detected.value, publishName)
     IN /\ fs' = r.fs
        /\ outcomes' = Append(outcomes, [file |-> MANAGED_LOCATIONS[idx], err |-> r.err])
        /\ pc' = AfterLocation(idx, r.err)
        /\ thrown' = IF pc' = "failed" THEN r.err ELSE "none"
  /\ idx' = idx + 1
  /\ phases' = IF pc' # pc THEN Append(phases, pc') ELSE phases
  /\ UNCHANGED <<fs0, publishName, op, detected, scanArg, occurrences, exitCode>>
  /\ UNCHANGED <<fs1, stderr, walked, excluded>>

\* findUnmanagedOccurrences(targetDir, devcode): the devcode of detection
ScanIdentifier(f, d) == d.value

\* A mutant of ScanWrites: the scan replaces what it finds in src/index.ts
ScanWritesFix(f, dv, name) ==
  IF f[P_index].kind = "file"
  THEN [f EXCEPT ![P_index].content = StringReplaceAll(@, ToStr(dv), name)]
  ELSE f

\* The tree after findUnmanagedOccurrences: it only reads
ScanWrites(f, dv, name) == f

Scanning ==
  /\ pc = "scanning"
  /\ scanArg' = ScanIdentifier(fs, detected)
  /\ occurrences' = findUnmanagedOccurrences(fs, scanArg')
  /\ fs' = ScanWrites(fs, scanArg', publishName)
  /\ pc' = "reporting"
  /\ phases' = Append(phases, pc')
  /\ UNCHANGED <<fs0, publishName, op, detected, idx, outcomes, exitCode, thrown>>
  /\ UNCHANGED <<fs1, stderr, walked, excluded>>

\* The console output of the report; prepareRelease resolves
Reporting ==
  /\ pc = "reporting"
  /\ pc' = "done"
  /\ phases' = Append(phases, pc')
  /\ UNCHANGED <<fs, fs0, publishName, op, detected, idx, outcomes, scanArg,
                 occurrences, exitCode, thrown>>
  /\ UNCHANGED <<fs1, stderr, walked, excluded>>

\* The action handler's catch: console.error and process.exit(1)
ExitFailure ==
  /\ pc = "failed"
  /\ pc' = "exited"
  /\ exitCode' = 1
  /\ phases' = Append(phases, pc')
  /\ UNCHANGED <<fs, fs0, publishName, op, detected, idx, outcomes, scanArg,
                 occurrences, thrown>>
  /\ stderr' = Append(stderr, thrown)
  /\ UNCHANGED <<fs1, walked, excluded>>

\* A mutant of ExitSuccess: a failed location or an unmanaged occurrence
\* makes the process exit with code 1
ExitSuccessBlocking ==
  /\ pc = "done"
  /\ pc' = "exited"
  /\ exitCode' = IF occurrences # <<>> \/ \E i \in 1..Len(outcomes) : outcomes[i].err # "none"
                 THEN 1 ELSE 0
  /\ phases' = Append(phases, pc')
  /\ UNCHANGED <<fs, fs0, publishName, op, detected, idx, outcomes, scanArg,
                 occurrences, thrown, fs1, stderr, walked, excluded>>

\* The action handler returns and the process ends
ExitSuccess ==
  /\ pc = "done"
  /\ pc' = "exited"
  /\ exitCode' = 0
  /\ phases' = Append(phases, pc')
  /\ UNCHANGED <<fs, fs0, publishName, op, detected, idx, outcomes, scanArg,
                 occurrences, thrown>>
  /\ UNCHANGED <<fs1, stderr, walked, excluded>>

Next ==
  \/ Start
  \/ Detecting
  \/ Rewriting
  \/ Scanning
  \/ Reporting
  \/ ExitFailure
  \/ ExitSuccess

Spec == Init /\ [][Next]_vars

(***************************************************************************)
(* The functions on their own: detectDevcode and each strategy applied     *)
(* once to a tree that holds one of the three managed files                *)
(***************************************************************************)
MaxLines == 3
MaxPieces == 3

RECURSIVE Concat(_)
Concat(ss) == IF ss = <<>> THEN <<>> ELSE Head(ss) \o Concat(Tail(ss))

SeqsUpTo(S, n) == UNION {[1..k -> S] : k \in 0..n}

\* Manifests: name and private of several types, other fields, both key
\* orders, both layouts
UnitNames == {Undefined, JStr(De), JStr(Ed), JNum("1")}
UnitPrivates ==
  {Undefined, JBool(TRUE), JBool(FALSE), JStr(<<"x">>), JStr(<<>>), JNum("0"),
   JNum("1"), JNull}
UnitExtras ==
  { <<>>, <<E("version", JStr(<<"x">>))>>,
    <<E("description", JStr(De)), E("version", JStr(<<"x">>))>> }

Field(k, v) == IF v = Undefined THEN <<>> ELSE <<E(k, v)>>

UnitManifests ==
  { Manifest(fmt, entries) :
      fmt \in {"compact", "pretty"},
      entries \in
        { Field("name", n) \o x \o Field("private", p) :
            n \in UnitNames, p \in UnitPrivates, x \in UnitExtras }
        \cup
        { Field("private", p) \o x \o Field("name", n) :
            n \in UnitNames, p \in UnitPrivates, x \in UnitExtras } }
  \cup {GarbageText, NullText}

UnitManifestTrees ==
  { [EmptyTree EXCEPT ![P_pkg] = FileNode(TRUE, TRUE, m)] : m \in UnitManifests }
  \cup { EmptyTree,
         [EmptyTree EXCEPT ![P_pkg] = FileNode(FALSE, TRUE, NullText)],
         [EmptyTree EXCEPT ![P_pkg] = FileNode(TRUE, FALSE,
            Manifest("compact", <<E("name", JStr(De)), E("private", JBool(TRUE))>>))] }

\* Config files: up to MaxLines lines out of these
CodeqlLines ==
  { <<>>,
    <<"name:", SP, "d", "e">>,
    <<SP, "name:", "x", "d", "e", "d", "e">>,
    <<"x", "d", "e">>,
    <<"x", "name:", "d", "e">>,
    <<"name:", "x">>,
    <<"name:", "d">> }

GithubDirs(f) ==
  [f EXCEPT ![P_github] = DirNode(TRUE), ![P_codeqlDir] = DirNode(TRUE),
            ![P_workflows] = DirNode(TRUE)]

UnitCodeqlTrees ==
  { [GithubDirs(EmptyTree) EXCEPT ![P_codeql] = FileNode(TRUE, TRUE, JoinLines(ls))] :
      ls \in SeqsUpTo(CodeqlLines, MaxLines) \ {<<>>} }
  \cup { [GithubDirs(EmptyTree) EXCEPT ![P_codeql] = FileNode(FALSE, TRUE, <<"name:">>)],
         [GithubDirs(EmptyTree) EXCEPT ![P_codeql] = FileNode(TRUE, FALSE, <<"name:">>)] }

\* Workflow files: up to MaxPieces pieces out of these
WorkflowPieces ==
  { <<"CO", NL>>,
    <<SP, "TODO", "TAIL", NL>>,
    <<"TODO", "TAIL">>,
    <<SP, "GT", NL>>,
    <<"SG", NL>>,
    <<NL>>,
    <<"x", NL>>,
    <<"x", SP, "TODO", "x", NL>>,
    <<SP, NL>>,
    <<"CO", SP, NL>>,
    <<"TODO", "CO", NL>> }

UnitTagprTrees ==
  { [GithubDirs(EmptyTree) EXCEPT ![P_tagpr] = FileNode(TRUE, TRUE, Concat(ps))] :
      ps \in SeqsUpTo(WorkflowPieces, MaxPieces) }
  \cup { [GithubDirs(EmptyTree) EXCEPT ![P_tagpr] = FileNode(TRUE, FALSE, <<"GT">>)] }

\* The arguments (devcode, publishName) of a strategy
UnitArgs ==
  { <<JStr(De), <<"p">>>>, <<JStr(De), <<"p", "d", "e">>>>,
    <<JStr(<<"d">>), <<"$&", "p">>>>, <<Undefined, <<"p">>>> }

UnitInit ==
  /\ \/ fs \in UnitManifestTrees /\ \E a \in UnitArgs : a[1] = JStr(De) /\ publishName = a[2] /\ detected = [err |-> "none", value |-> a[1]]
     \/ fs \in UnitCodeqlTrees /\ \E a \in UnitArgs : publishName = a[2] /\ detected = [err |-> "none", value |-> a[1]]
     \/ fs \in UnitTagprTrees /\ publishName = <<"p">> /\ detected = [err |-> "none", value |-> JStr(De)]
  /\ fs0 = fs
  /\ pc = "idle"
  /\ op = "none"
  /\ idx = 1
  /\ outcomes = <<>>
  /\ scanArg = Undefined
  /\ occurrences = <<>>
  /\ exitCode = -1
  /\ thrown = "none"
  /\ phases = <<"idle">>
  /\ fs1 = fs
  /\ stderr = <<>>
  /\ walked = <<>>
  /\ excluded = EXCLUDE_DIRS

UnitDetect ==
  /\ pc = "idle"
  /\ op' = "detectDevcode"
  /\ detected' = detectDevcode(fs)
  /\ pc' = "done"
  /\ phases' = Append(phases, pc')
  /\ UNCHANGED <<fs, fs0, publishName, idx, outcomes, scanArg, occurrences,
                 exitCode, thrown>>
  /\ UNCHANGED <<fs1, stderr, walked, excluded>>

\* One strategy applied with the arguments of the initial state
UnitReplace(i, name) ==
  /\ pc = "idle"
  /\ op' = name
  /\ LET r == LocationReplace(i, fs, detected.value, publishName)
     IN /\ fs' = r.fs
        /\ outcomes' = <<[file |-> MANAGED_LOCATIONS[i], err |-> r.err]>>
  /\ pc' = "done"
  /\ phases' = Append(phases, pc')
  /\ UNCHANGED <<fs0, publishName, detected, idx, scanArg, occurrences,
                 exitCode, thrown>>
  /\ fs1' = fs'
  /\ UNCHANGED <<stderr, walked, excluded>>

UnitPackageJson == UnitReplace(1, "replaceInPackageJson")

UnitCodeql == UnitReplace(2, "replaceInCodeqlConfig")

UnitTagpr == UnitReplace(3, "replaceInTagprWorkflow")

\* The same strategy is called a second time, with the same arguments, on
\* the tree its first call left
UnitReplay ==
  /\ pc = "done"
  /\ op # "detectDevcode"
  /\ \E i \in 1..Len(MANAGED_LOCATIONS) :
       /\ outcomes[1].file = MANAGED_LOCATIONS[i]
       /\ LET r == LocationReplace(i, fs, detected.value, publishName)
          IN /\ fs' = r.fs
             /\ outcomes' = Append(outcomes, [file |-> MANAGED_LOCATIONS[i], err |-> r.err])
  /\ pc' = "replayed"
  /\ phases' = Append(phases, pc')
  /\ UNCHANGED <<fs0, publishName, op, detected, idx, scanArg, occurrences,
                 exitCode, thrown, fs1, stderr, walked, excluded>>

UnitNext ==
  \/ UnitDetect
  \/ UnitPackageJson
  \/ UnitCodeql
  \/ UnitTagpr
  \/ UnitReplay

SpecUnits == UnitInit /\ [][UnitNext]_vars

----------------------------------------------------------------------------
\* The scanner on its own: findFilesRecursive with several exclusion lists,
\* findUnmanagedOccurrences with the identifier "de"

\* node_modules as a regular file
NodeModulesFile == [p \in {P_nm} |-> FileNode(TRUE, TRUE, SrcText)]

ScanTrees ==
  { (P_pkg :> FileNode(TRUE, TRUE, Manifest("pretty",
        <<E("name", JStr(De)), E("private", JBool(TRUE))>>)))
      @@ g @@ s @@ n @@ d @@ EmptyTree :
    g \in GithubParts, s \in SrcParts,
    n \in NodeModulesParts \cup {NodeModulesFile}, d \in DistParts }

ExclusionLists ==
  { EXCLUDE_DIRS, {}, {"src"}, {"codeql", "dist"}, {".github", "index.ts"} }

ScanInit ==
  /\ fs \in ScanTrees
  /\ excluded \in ExclusionLists
  /\ fs0 = fs
  /\ fs1 = fs
  /\ publishName = <<"p">>
  /\ detected = [err |-> "none", value |-> JStr(De)]
  /\ pc = "idle"
  /\ op = "none"
  /\ idx = 1
  /\ outcomes = <<>>
  /\ scanArg = Undefined
  /\ occurrences = <<>>
  /\ exitCode = -1
  /\ thrown = "none"
  /\ phases = <<"idle">>
  /\ stderr = <<>>
  /\ walked = <<>>

\* findFilesRecursive(targetDir, excluded)
ScanWalk ==
  /\ pc = "idle"
  /\ op' = "findFilesRecursive"
  /\ walked' = findFilesRecursive(fs, <<>>, excluded)
  /\ pc' = "done"
  /\ phases' = Append(phases, pc')
  /\ UNCHANGED <<fs, fs0, publishName, detected, idx, outcomes, scanArg,
                 occurrences, exitCode, thrown, fs1, stderr, excluded>>

\* findUnmanagedOccurrences(targetDir, devcode)
ScanFind ==
  /\ pc = "idle"
  /\ op' = "findUnmanagedOccurrences"
  /\ scanArg' = detected.value
  /\ occurrences' = findUnmanagedOccurrences(fs, scanArg')
  /\ pc' = "done"
  /\ phases' = Append(phases, pc')
  /\ UNCHANGED <<fs, fs0, publishName, detected, idx, outcomes, exitCode,
                 thrown, fs1, stderr, walked, excluded>>

ScanNext ==
  \/ ScanWalk
  \/ ScanFind

SpecScan == ScanInit /\ [][ScanNext]_vars

(***************************************************************************)
(* Properties                                                              *)
(***************************************************************************)
ManagedPaths ==
  { <<"package.json">>,
    <<".github", "codeql", "codeql-config.yml">>,
    <<".github", "workflows", "tagpr.yml">> }

Tokens(s) == {s[i] : i \in 1..Len(s)}

Keys(entries) == {entries[i].k : i \in 1..Len(entries)}

DetectionFailed == detected.err \notin {"pending", "none"}

\* C1: when detection fails inside prepareRelease the run aborts with the
\* detector's error, the tree is exactly the tree before the call (no file
\* created, modified or deleted), no managed rewrite ran and no scan started.
C1_DetectionFailureTouchesNothing ==
  (op = "prepareRelease" /\ DetectionFailed) =>
    /\ pc \in {"failed", "exited"}
    /\ thrown = detected.err
    /\ fs = fs0
    /\ outcomes = <<>>
    /\ \A i \in 1..Len(phases) : phases[i] \notin {"rewriting", "scanning"}
    /\ occurrences = <<>>

\* C1 witness: a run that failed on a manifest without the flag, with both
\* the workflow file and the config file present
C1_Witness ==
  /\ op = "prepareRelease"
  /\ pc = "exited"
  /\ detected.err = ErrNotDevcode
  /\ fs0[P_tagpr].kind = "file"
  /\ fs0[P_codeql].kind = "file"

\* C2: at every point of a run every path other than the three managed paths
\* holds what it held before the run, and the step that scans for unmanaged
\* occurrences leaves the whole tree unchanged.
C2_OnlyManagedFilesChange ==
  /\ [](\A p \in Paths \ ManagedPaths : fs[p] = fs0[p])
  /\ [][pc = "scanning" => fs' = fs]_vars

\* C2 witness: a complete run that rewrote a managed file and reported an
\* occurrence in src/index.ts
C2_Witness ==
  /\ pc = "done"
  /\ fs # fs0
  /\ \E i \in 1..Len(occurrences) : occurrences[i].file = <<"src", "index.ts">>

\* C3: after the manifest rewriter succeeds the manifest's name is the
\* publish name, it has no private key, and every other field is there with
\* the value it had (no field added, none lost).
C3_ManifestRewritten ==
  (op = "replaceInPackageJson" /\ outcomes = <<[file |-> P_pkg, err |-> "none"]>>) =>
    LET before == fs0[P_pkg].content.entries
        after == fs[P_pkg].content.entries
        others == Keys(before) \ {"name", "private"}
    IN /\ fs[P_pkg].content.top = "object"
       /\ \E i \in 1..Len(after) : after[i] = [k |-> "name", v |-> JStr(publishName)]
       /\ "private" \notin Keys(after)
       /\ Keys(after) = others \cup {"name"}
       /\ Len(after) = Cardinality(Keys(after))
       /\ \A k \in others :
            \E i \in 1..Len(after), j \in 1..Len(before) :
              after[i].k = k /\ before[j].k = k /\ after[i].v = before[j].v

\* C3 witness: a manifest with private and two other fields was rewritten
C3_Witness ==
  /\ op = "replaceInPackageJson"
  /\ outcomes = <<[file |-> P_pkg, err |-> "none"]>>
  /\ {"private", "version", "description"} \subseteq Keys(fs0[P_pkg].content.entries)

\* The line's content after its leading blanks begins with name:
BeginsWithName(line) ==
  \E k \in 1..Len(line) :
    line[k] = "name:" /\ \A j \in 1..(k - 1) : line[j] = SP

\* C4: the config rewriter keeps the number of lines, changes no line other
\* than the first name: line, and changes nothing when there is no name: line.
C4_OnlyFirstNameLine ==
  (/\ op = "replaceInCodeqlConfig"
   /\ fs0[P_codeql].kind = "file"
   /\ outcomes = <<[file |-> P_codeql, err |-> "none"]>>) =>
    LET a == SplitLines(fs0[P_codeql].content)
        b == SplitLines(fs[P_codeql].content)
        named == {i \in 1..Len(a) : BeginsWithName(a[i])}
    IN /\ Len(a) = Len(b)
       /\ \A i \in 1..Len(a) :
            (i \notin named \/ \E j \in named : j < i) => b[i] = a[i]
       /\ named = {} => fs[P_codeql] = fs0[P_codeql]

\* C4 witness: a file with two name: lines and a line that is no name: line
\* but holds the identifier was rewritten
C4_Witness ==
  /\ op = "replaceInCodeqlConfig"
  /\ outcomes = <<[file |-> P_codeql, err |-> "none"]>>
  /\ fs # fs0
  /\ LET a == SplitLines(fs0[P_codeql].content)
     IN /\ Cardinality({i \in 1..Len(a) : BeginsWithName(a[i])}) >= 2
        /\ \E i \in 1..Len(a) : ~BeginsWithName(a[i]) /\ Includes(a[i], De)

ScanDone == op = "prepareRelease" /\ pc \in {"reporting", "done"}

Reported == {<<occurrences[i].file, occurrences[i].line>> : i \in 1..Len(occurrences)}

\* The lines of the file at p that hold the identifier, as (path, line)
LinesWith(p, dv) ==
  LET lines == SplitLines(fs[p].content)
  IN {<<p, i>> : i \in {i \in 1..Len(lines) : Includes(lines[i], dv)}}

\* C5 as stated: every line holding the identifier in every regular file of
\* the tree other than the managed paths is reported, and nothing is reported
\* for a file that cannot be read.
C5_Original ==
  ScanDone =>
    \A p \in Paths \ ManagedPaths :
      fs[p].kind = "file" =>
        IF fs[p].readable
        THEN LinesWith(p, ToStr(detected.value)) \subseteq Reported
        ELSE \A i \in 1..Len(occurrences) : occurrences[i].file # p

\* The file at p is below no directory named in the exclusion list and below
\* no directory that cannot be listed
Reachable(p) ==
  \A a \in ProperAncestors(p) :
    /\ fs[a].kind = "dir"
    /\ fs[a].readable
    /\ a[Len(a)] \notin {"node_modules", ".git", "dist", "bun.lockb"}

\* C5 amended: the reported (path, line) pairs are exactly the lines holding
\* the identifier in the readable regular files that are not at a managed
\* path, not below a directory named node_modules, .git, dist or bun.lockb
\* and not below a directory that cannot be listed.
C5_ReportsReachableFiles ==
  ScanDone =>
    Reported =
      UNION { LinesWith(p, ToStr(detected.value)) :
                p \in {q \in Paths \ ManagedPaths :
                         fs[q].kind = "file" /\ fs[q].readable /\ Reachable(q)} }

\* C5 witness: a scan that reported src/package.json (same name as a managed
\* file, another path), skipped an unreadable file and an excluded directory
C5_Witness ==
  /\ ScanDone
  /\ <<P_srcPkg, 2>> \in Reported
  /\ fs[P_index].kind = "file" /\ ~fs[P_index].readable
  /\ fs[P_nmDep].kind = "file"
  /\ fs[P_dist].kind = "file" /\ <<P_dist, 4>> \in Reported

\* C6: a failed location never fails the run: each location's outcome is the
\* outcome of its own strategy on its own file, all three are processed in
\* registry order, and the scan then runs with the name the manifest held
\* when detection read it.
C6_LocationFailureIsLocal ==
  op = "prepareRelease" =>
    /\ outcomes # <<>> => (pc # "failed" /\ thrown = "none" /\ exitCode # 1)
    /\ \A i \in 1..Len(outcomes) :
         /\ outcomes[i].file = MANAGED_LOCATIONS[i]
         /\ outcomes[i].err = LocationReplace(i, fs0, detected.value, publishName).err
    /\ (detected.err = "none" /\ pc \in {"scanning", "reporting", "done", "exited"})
         => Len(outcomes) = 3
    /\ (detected.err = "none" /\ pc \in {"reporting", "done", "exited"})
         => /\ \E i \in 1..Len(phases) : phases[i] = "scanning"
            /\ \E i \in 1..Len(fs0[P_pkg].content.entries) :
                 fs0[P_pkg].content.entries[i] = [k |-> "name", v |-> scanArg]

\* C6 witness: the manifest could not be written, the other two locations
\* were rewritten and the scan reported occurrences
C6_Witness ==
  /\ pc = "done"
  /\ Len(outcomes) = 3
  /\ outcomes[1].err = "EACCES"
  /\ outcomes[2].err = "none" /\ outcomes[3].err = "none"
  /\ fs[P_tagpr] # fs0[P_tagpr]
  /\ occurrences # <<>>

ManifestRead ==
  /\ op = "detectDevcode"
  /\ fs0[P_pkg].kind = "file"
  /\ fs0[P_pkg].readable
  /\ fs0[P_pkg].content.top = "object"

\* C7 as stated: detection fails with the not-devcode error whenever the
\* manifest is present and its private field is not the boolean true.
C7_Original ==
  (ManifestRead /\ [k |-> "private", v |-> JBool(TRUE)] \notin
     {fs0[P_pkg].content.entries[i] : i \in 1..Len(fs0[P_pkg].content.entries)})
    => detected.err = ErrNotDevcode

\* C8: for a manifest with private: true and name N detection returns N, and
\* the tree is left as it was.
C8_DetectionReturnsName ==
  ManifestRead =>
    LET es == fs0[P_pkg].content.entries
    IN \A i, j \in 1..Len(es) :
         (es[i] = [k |-> "private", v |-> JBool(TRUE)] /\ es[j].k = "name")
           => (detected = [err |-> "none", value |-> es[j].v] /\ fs = fs0)

\* C8 witness: detection returned the name "ed" of a manifest whose first key
\* is private
C8_Witness ==
  /\ ManifestRead
  /\ fs0[P_pkg].content.entries # <<>>
  /\ fs0[P_pkg].content.entries[1] = [k |-> "private", v |-> JBool(TRUE)]
  /\ detected = [err |-> "none", value |-> JStr(Ed)]

\* C9: when the manifest file does not exist detection fails with the
\* manifest-not-found error.
C9_MissingManifest ==
  (op = "detectDevcode" /\ fs0[P_pkg].kind = "none") => detected.err = ErrNotFound

\* C9 witness: detection ran on a tree without a manifest
C9_Witness ==
  /\ op = "detectDevcode"
  /\ pc = "done"
  /\ fs0[P_pkg].kind = "none"
  /\ detected.err = ErrNotFound

WorkflowRewritten ==
  /\ op = "replaceInTagprWorkflow"
  /\ fs0[P_tagpr].kind = "file"
  /\ outcomes = <<[file |-> P_tagpr, err |-> "none"]>>

C11_Original ==
  WorkflowRewritten => "TODO" \notin Tokens(fs[P_tagpr].content)

\* How often the token t occurs in s
Count(s, t) == Cardinality({i \in 1..Len(s) : s[i] = t})

\* An indentation of k blanks
Spaces(k) == [n \in 1..k |-> SP]

\* The with:/token: block at indentation k
TokenBlock(k) == Spaces(k) \o <<"with:", NL>> \o Spaces(k) \o <<SP, SP, "TK">>

\* The checkout texts of s whose line is immediately followed by a line that
\* consists of an indentation and the sentinel comment
FollowedBySentinelLine(s) ==
  {i \in 1..Len(s) :
     /\ s[i] = "CO"
     /\ \E e \in (i + 1)..Len(s) : \E k \in 0..Len(s) :
          /\ \A n \in (i + 1)..(e - 1) : s[n] # NL
          /\ s[e] = NL
          /\ e + k + 2 <= Len(s)
          /\ \A n \in (e + 1)..(e + k) : s[n] = SP
          /\ s[e + k + 1] = "TODO" /\ s[e + k + 2] = "TAIL"}

\* C12 as stated: every checkout line that is immediately followed by the
\* sentinel comment line is still there, unchanged, after the rewrite and is
\* followed by a with: line at the comment's indentation and a token: line
\* two blanks deeper; no other checkout line gets such a block.
C12_Original ==
  WorkflowRewritten =>
    LET in == fs0[P_tagpr].content
        out == fs[P_tagpr].content
    IN /\ Count(out, "with:") = Cardinality(FollowedBySentinelLine(in))
       /\ \A i \in FollowedBySentinelLine(in) :
            \E e \in (i + 1)..Len(in) : \E k \in 0..Len(in) :
              /\ \A n \in (i + 1)..(e - 1) : in[n] # NL
              /\ in[e] = NL
              /\ e + k + 2 <= Len(in)
              /\ \A n \in (e + 1)..(e + k) : in[n] = SP
              /\ in[e + k + 1] = "TODO"
              /\ Includes(out, SubSeq(in, i, e) \o TokenBlock(k))

\* The checkout texts of s that end their line and are followed, after the
\* line feed and white space only, by the exact sentinel comment
Anchored(s) ==
  {i \in 1..Len(s) :
     /\ s[i] = "CO"
     /\ i + 1 <= Len(s) /\ s[i + 1] = NL
     /\ \E j \in (i + 2)..(Len(s) - 1) :
          /\ \A n \in (i + 2)..(j - 1) : IsWhite(s[n])
          /\ s[j] = "TODO" /\ s[j + 1] = "TAIL"}

\* The checkout text at i stands behind a sentinel comment on its own line
InSentinelComment(s, i) ==
  \E m \in 1..(i - 1) : s[m] = "TODO" /\ \A n \in m..i : s[n] # NL

\* C12 amended: the rewritten file holds one with:/token: block for each
\* checkout text that ends its line and is followed, after white space only,
\* by the exact sentinel comment, and no other such block; when the sentinel
\* stands on the very next line behind k blanks (and the checkout text is
\* not itself inside a sentinel comment), the checkout line is kept and is
\* followed by with: behind k blanks and the token line behind k + 2 blanks.
C12_BlockForAnchoredCheckout ==
  WorkflowRewritten =>
    LET in == fs0[P_tagpr].content
        out == fs[P_tagpr].content
    IN /\ Count(out, "with:") = Cardinality(Anchored(in))
       /\ Count(out, "TK") = Cardinality(Anchored(in))
       /\ \A i \in Anchored(in) : \A k \in 0..Len(in) :
            ( /\ i + k + 3 <= Len(in)
              /\ \A n \in (i + 2)..(i + k + 1) : in[n] = SP
              /\ in[i + k + 2] = "TODO"
              /\ ~InSentinelComment(in, i) )
            => Includes(out, <<"CO", NL>> \o TokenBlock(k))

\* C12 witness: of two checkout lines, the one that ends with its version and
\* is followed by the indented sentinel received the block, the one with a
\* trailing blank did not
C12_Witness ==
  /\ WorkflowRewritten
  /\ Count(fs0[P_tagpr].content, "CO") = 2
  /\ Cardinality(Anchored(fs0[P_tagpr].content)) = 1
  /\ Includes(fs0[P_tagpr].content, <<"CO", SP, NL>>)
  /\ Includes(fs[P_tagpr].content, <<"CO", NL>> \o TokenBlock(1))
  /\ Count(fs[P_tagpr].content, "with:") = 1

\* C13 as stated: a strategy applied a second time, with the same identifier
\* and publish name, to the tree its first application produced leaves every
\* managed file as the first application left it.
C13_Original ==
  pc = "replayed" => \A p \in ManagedPaths : fs[p] = fs1[p]

\* The locations whose file may be missing: the config and the workflow
OptionalLocations == {2, 3}

\* Location i was processed without an error and the loop went on
SilentlySkipped(i) ==
  /\ fs[MANAGED_LOCATIONS[i]].kind = "none"
  /\ i <= Len(outcomes) =>
       /\ outcomes[i] = [file |-> MANAGED_LOCATIONS[i], err |-> "none"]
       /\ thrown = "none" /\ pc # "failed" /\ exitCode # 1
       /\ Len(outcomes) = i =>
            IF i < 3 THEN pc = "rewriting" /\ idx = i + 1
            ELSE pc \in {"scanning", "reporting", "done", "exited"}

\* C14 as stated: when the config file or the workflow file does not exist,
\* its strategy raises no error, does not create the file, the location is
\* not recorded as failed and the run goes on with the next location.
C14_Original ==
  op = "prepareRelease" =>
    \A i \in OptionalLocations :
      fs0[MANAGED_LOCATIONS[i]].kind = "none" => SilentlySkipped(i)

\* C14 amended: when the config file or the workflow file does not exist and
\* no component of its path is a regular file (the read fails with ENOENT),
\* its strategy raises no error, does not create the file, the location is
\* not recorded as failed and the run goes on with the next location; when a
\* component of the path is a regular file the read fails with ENOTDIR, the
\* location is recorded as failed with that error, no file is created and
\* the run still goes on.
C14_MissingFileIsSkipped ==
  op = "prepareRelease" =>
    \A i \in OptionalLocations :
      LET p == MANAGED_LOCATIONS[i]
      IN fs0[p].kind = "none" =>
           IF \A a \in ProperAncestors(p) : fs0[a].kind # "file"
           THEN SilentlySkipped(i)
           ELSE /\ fs[p].kind = "none"
                /\ i <= Len(outcomes) =>
                     /\ outcomes[i] = [file |-> p, err |-> "ENOTDIR"]
                     /\ thrown = "none" /\ pc # "failed" /\ exitCode # 1

\* C14 witness: .github exists without the config and without the workflow;
\* both locations were passed without an error and the scan begins
C14_Witness ==
  /\ op = "prepareRelease" /\ pc = "scanning"
  /\ fs0[P_github].kind = "dir"
  /\ fs0[P_codeql].kind = "none" /\ fs0[P_tagpr].kind = "none"
  /\ fs[P_codeql].kind = "none" /\ fs[P_tagpr].kind = "none"
  /\ outcomes[2].err = "none" /\ outcomes[3].err = "none"

\* C15: a run whose detection succeeded never fails and never exits with
\* code 1, however many locations failed and however many occurrences were
\* found: it ends with exit code 0 and nothing written to the error stream.
\* A run exits with code 1 only when detection failed, and then after
\* exactly one error line, which carries the message of the detection error.
C15_OnlyDetectionFails ==
  op = "prepareRelease" =>
    /\ detected.err = "none" =>
         /\ pc # "failed" /\ thrown = "none" /\ stderr = <<>>
         /\ exitCode # 1
         /\ pc = "exited" => exitCode = 0
    /\ (pc = "failed" \/ exitCode = 1 \/ stderr # <<>>) =>
         /\ DetectionFailed
         /\ thrown = detected.err
         /\ outcomes = <<>> /\ occurrences = <<>>
    /\ pc = "exited" =>
         IF DetectionFailed
         THEN exitCode = 1 /\ stderr = <<detected.err>>
         ELSE exitCode = 0 /\ stderr = <<>>

\* C15 witness: all three locations failed and occurrences were found, and
\* the process ended with exit code 0
C15_Witness ==
  /\ op = "prepareRelease" /\ pc = "exited" /\ exitCode = 0
  /\ Len(outcomes) = 3
  /\ \A i \in 1..3 : outcomes[i].err # "none"
  /\ Len(occurrences) >= 2

\* s is an initial part of t
IsPrefix(s, t) == Len(s) <= Len(t) /\ s = SubSeq(t, 1, Len(s))

\* The positions of a run that passes detection, and of one that does not
PhaseOrder ==
  <<"idle", "detecting", "rewriting", "scanning", "reporting", "done", "exited">>

FailedPhaseOrder == <<"idle", "detecting", "failed", "exited">>

\* The registry order of the three managed files
RegistryOrder ==
  << <<"package.json">>,
     <<".github", "codeql", "codeql-config.yml">>,
     <<".github", "workflows", "tagpr.yml">> >>

\* C16: the phases a run has entered are an initial part of Detecting,
\* Rewriting, Scanning, Reporting, Done (a failed detection ends the run
\* after Detecting), so no phase is entered twice; the locations processed
\* so far are an initial part of the registry order, one outcome each, the
\* loop processing location Len(outcomes) + 1 next; and once the scan has
\* been entered all three locations have their outcome.
C16_PhasesInOrder ==
  op = "prepareRelease" =>
    /\ IsPrefix(phases, PhaseOrder) \/ IsPrefix(phases, FailedPhaseOrder)
    /\ phases[Len(phases)] = pc
    /\ IsPrefix([i \in 1..Len(outcomes) |-> outcomes[i].file], RegistryOrder)
    /\ pc \in {"idle", "detecting", "failed"} => outcomes = <<>>
    /\ pc = "rewriting" => idx = Len(outcomes) + 1 /\ Len(outcomes) < 3
    /\ (\E n \in 1..Len(phases) : phases[n] = "scanning") => Len(outcomes) = 3
    /\ pc \in {"idle", "detecting", "rewriting", "scanning"} => occurrences = <<>>

\* C16 witness: a run is between its second and its third location
C16_Witness ==
  /\ op = "prepareRelease" /\ pc = "rewriting"
  /\ phases = <<"idle", "detecting", "rewriting">>
  /\ Len(outcomes) = 2 /\ idx = 3
  /\ outcomes[2].file = P_codeql
  /\ fs # fs0

\* The members of a sequence
Range(s) == {s[i] : i \in 1..Len(s)}

\* C17: whatever the tree and the exclusion list, findFilesRecursive returns,
\* once each, exactly the regular files all of whose ancestor directories
\* below the root can be read and have a name outside the exclusion list:
\* nothing below an excluded directory at any depth, nothing below an
\* unreadable directory, and everything else, the siblings of an unreadable
\* directory included.
C17_WalkReturnsReachableFiles ==
  op = "findFilesRecursive" =>
    LET expected ==
          {p \in Paths :
             /\ fs[p].kind = "file"
             /\ \A a \in ProperAncestors(p) :
                  /\ fs[a].kind = "dir"
                  /\ fs[a].readable
                  /\ a[Len(a)] \notin excluded}
    IN /\ Range(walked) = expected
       /\ Len(walked) = Cardinality(expected)

\* C17 witness: with codeql and dist excluded the walk returned the workflow
\* and the file in node_modules, left out the config below codeql and the
\* file below src/dist, and returned the sibling of src/dist
C17_Witness ==
  /\ op = "findFilesRecursive"
  /\ excluded = {"codeql", "dist"}
  /\ P_tagpr \in Range(walked) /\ P_nmDep \in Range(walked)
  /\ fs[P_codeql].kind = "file" /\ P_codeql \notin Range(walked)
  /\ fs[P_srcDistOut].kind = "file" /\ P_srcDistOut \notin Range(walked)
  /\ P_index \in Range(walked)

\* The regular files whose own name is on the exclusion list x, while every
\* directory above them can be read and has a name outside x
FilesNamedLikeExcluded(x) ==
  {p \in Paths :
     /\ fs[p].kind = "file"
     /\ p[Len(p)] \in x
     /\ \A a \in ProperAncestors(p) :
          fs[a].kind = "dir" /\ fs[a].readable /\ a[Len(a)] \notin x}

\* C20: the exclusion list is compared with directory names only: a regular
\* file whose name is on the list is returned by findFilesRecursive, and
\* findUnmanagedOccurrences reports each of its lines that holds the
\* identifier.
C20_ExclusionIsForDirectories ==
  /\ op = "findFilesRecursive" =>
       FilesNamedLikeExcluded(excluded) \subseteq Range(walked)
  /\ op = "findUnmanagedOccurrences" =>
       \A p \in FilesNamedLikeExcluded(EXCLUDE_DIRS) :
         (fs[p].readable /\ p \notin ManagedPaths) =>
           /\ LinesWith(p, ToStr(scanArg)) # {}
           /\ LinesWith(p, ToStr(scanArg)) \subseteq Reported

\* C20 witness: dist and node_modules are regular files, and the occurrence
\* finder reported lines of both
C20_Witness ==
  /\ op = "findUnmanagedOccurrences"
  /\ fs[P_dist].kind = "file" /\ fs[P_nm].kind = "file"
  /\ {<<P_dist, 2>>, <<P_dist, 4>>, <<P_nm, 2>>, <<P_nm, 4>>} \subseteq Reported

\* The place of an entry in the listing of its directory
ListingIndex(p) == CHOOSE n \in 1..Len(PathOrder) : PathOrder[n] = p

\* p is met before q by a depth-first walk: where the two paths part, the
\* entry on the way to p is listed before the entry on the way to q
WalkedBefore(p, q) ==
  \E k \in 1..Len(p) :
    /\ k <= Len(q)
    /\ SubSeq(p, 1, k - 1) = SubSeq(q, 1, k - 1)
    /\ p[k] # q[k]
    /\ ListingIndex(SubSeq(p, 1, k)) < ListingIndex(SubSeq(q, 1, k))

\* C18: in the reported list, the occurrences of one file stand together in
\* strictly increasing line number, and the occurrences of two files stand
\* in the order in which a depth-first walk of the tree meets the files.
C18_ReportIsOrdered ==
  ScanDone =>
    \A i, j \in 1..Len(occurrences) :
      i < j =>
        IF occurrences[i].file = occurrences[j].file
        THEN occurrences[i].line < occurrences[j].line
        ELSE WalkedBefore(occurrences[i].file, occurrences[j].file)

\* C18 witness: a report with two lines of dist, then two lines of
\* src/index.ts, then lines of src/package.json
C18_Witness ==
  /\ ScanDone
  /\ Len(occurrences) >= 6
  /\ occurrences[1].file = P_dist /\ occurrences[1].line = 2
  /\ occurrences[2].file = P_dist /\ occurrences[2].line = 4
  /\ occurrences[3].file = P_index /\ occurrences[4].file = P_index
  /\ occurrences[5].file = P_srcPkg

\* C19: what the rewrites leave of the identifier in a managed file stays
\* there and is not reported: a successful manifest rewrite keeps every field
\* other than name and private as it was, a successful config rewrite keeps
\* every line other than the first name: line as it was, and the report
\* names no managed path.
C19_ManagedFilesAreNotReported ==
  ScanDone =>
    /\ \A i \in 1..Len(occurrences) : occurrences[i].file \notin ManagedPaths
    /\ outcomes[1].err = "none" =>
         \A j \in 1..Len(fs0[P_pkg].content.entries) :
           LET e == fs0[P_pkg].content.entries[j]
           IN e.k \notin {"name", "private"} =>
                \E n \in 1..Len(fs[P_pkg].content.entries) :
                  fs[P_pkg].content.entries[n] = e
    /\ (outcomes[2].err = "none" /\ fs0[P_codeql].kind = "file") =>
         LET a == SplitLines(fs0[P_codeql].content)
             b == SplitLines(fs[P_codeql].content)
         IN /\ Len(a) = Len(b)
            /\ \A i \in 1..Len(a) :
                 (~BeginsWithName(a[i]) \/ \E j \in 1..(i - 1) : BeginsWithName(a[j]))
                   => b[i] = a[i]

\* C19 witness: after successful rewrites the manifest's description and
\* three lines of the config still hold the identifier "de", lines of
\* src/index.ts were reported, and nothing of the two managed files was
C19_Witness ==
  /\ ScanDone
  /\ scanArg = JStr(De)
  /\ outcomes[1].err = "none" /\ outcomes[2].err = "none"
  /\ \E n \in 1..Len(fs[P_pkg].content.entries) :
       fs[P_pkg].content.entries[n] = [k |-> "description", v |-> JStr(<<"x", "d", "e">>)]
  /\ Cardinality(LinesWith(P_codeql, De)) = 3
  /\ <<P_index, 2>> \in Reported
  /\ \A i \in 1..Len(occurrences) : occurrences[i].file \notin {P_pkg, P_codeql}

\* The lines of a text, each ended by its line feed; what follows the last
\* line feed is a line when it is not empty
TextLines(s) ==
  LET l == SplitLines(s)
  IN IF l[Len(l)] = <<>> THEN SubSeq(l, 1, Len(l) - 1) ELSE l

\* C21: after the workflow rewriter has run, the file holds no three line
\* feeds in a row, so it has no three consecutive blank lines (a blank line
\* being a line with no character), at its start, inside or at its end.
C21_NoThreeBlankLines ==
  WorkflowRewritten =>
    LET out == fs[P_tagpr].content
        lines == TextLines(out)
    IN /\ ~Includes(out, <<NL, NL, NL>>)
       /\ \A i \in 1..(Len(lines) - 2) :
            ~(lines[i] = <<>> /\ lines[i + 1] = <<>> /\ lines[i + 2] = <<>>)

\* C21 witness: removing a comment line brought three line feeds together
\* (the file had no such run before), and the written file has two
C21_Witness ==
  /\ WorkflowRewritten
  /\ ~Includes(fs0[P_tagpr].content, <<NL, NL, NL>>)
  /\ Includes(RemoveTodoComments(AddCheckoutToken(ReplaceTokenRefs(fs0[P_tagpr].content))),
              <<NL, NL, NL>>)
  /\ Includes(fs[P_tagpr].content, <<NL, NL>>)

====
